---- MODULE Spec2Model ----
(***************************************************************************)
(* Model of the Mermaid diagram rendering coordinator                      *)
(* (src/unnamed/part_001): singleton guard, library bootstrap with         *)
(* fallback source, theme-change detector, render scheduler with           *)
(* per-target retry and pass-level retry.                                  *)
(*                                                                         *)
(* The browser is single threaded: every action below is one task of the   *)
(* event loop (an event handler, a timer callback, a script callback or    *)
(* the continuation of an await), run to its next suspension point.        *)
(* Pending timers may fire in any order; the delay of each is recorded     *)
(* by the task that sets it.                                               *)
(***************************************************************************)
EXTENDS Integers, Sequences, FiniteSets, Bags, TLC

\* ---------------------------------------------------------------- bounds
MaxTimers == 1      \* pending render timers at which the page's events stop adding more
MaxBatch == 2       \* most class writes delivered to one observer callback
MaxPasses == 2      \* invocation slots for renderMermaidDiagrams
MaxIconCalls == 3   \* calls of IconLoader.loadIconify
MaxOnLoads == 2     \* calls of IconLoader.onLoad
MaxUmamiCalls == 3  \* calls of getUmamiWebsiteStats
MaxTicks == 2       \* times the clock is seen to advance
MaxWidgets == 2     \* components in the sidebar configuration
MaxSwupCalls == 3   \* calls of waitForSwup
MaxVisits == 2      \* page transitions
MaxCallbacks == 3   \* calls of AnimationManager.queueAnimation

\* ------------------------------------------------------ program constants
MAX_RETRIES == 3
RETRY_DELAY == 1000
maxAttempts == 3
ThemeSettleDelay == 150
PageLoadDelay == 100
VisibleDelay == 200
AttemptBackoff == 500
cacheTTL == 3600000

\* ------------------------------------------------------------ class names
\* A string is a sequence of characters; the class attribute is its tokens
\* joined by one space.
DarkToken == <<"d", "a", "r", "k">>
OtherToken == <<"d", "a", "r", "k", "e", "r">>
ClassTokens == <<DarkToken, OtherToken>>

RECURSIVE JoinTokens(_, _)
JoinTokens(set, i) ==
    IF i > Len(ClassTokens) THEN <<>>
    ELSE LET rest == JoinTokens(set, i + 1)
         IN  IF ClassTokens[i] \in set
             THEN IF rest = <<>> THEN ClassTokens[i]
                  ELSE ClassTokens[i] \o <<" ">> \o rest
             ELSE rest

\* the value of the class attribute of an element whose class list is `set`
ClassValue(set) == JoinTokens(set, 1)

\* String.prototype.includes
Includes(s, sub) ==
    \E i \in 0..(Len(s) - Len(sub)) : SubSeq(s, i + 1, i + Len(sub)) = sub

\* DOMTokenList.contains
ClassListContains(set, tok) == tok \in set

ThemeOf(isDark) == IF isDark THEN "dark" ELSE "default"

VARIABLES
    mermaidInitialized, \* window.mermaidInitialized
    readyState,         \* document.readyState
    domReadyListeners,  \* DOMContentLoaded listeners registered by the script
    rootClass,          \* class list of the document root
    classNames,         \* the class names the page's scripts put on the root
    mermaid,            \* window.mermaid: "undefined", "library", or "loaded":
                        \* still undefined though a library script has run
    elements,           \* data-mermaid-code of each target, in document order
    content,            \* innerHTML (and svg attributes) of each target
    observers,          \* MutationObservers on the document root
    listeners,          \* astro:page-load / visibilitychange listener pairs
    libTheme,           \* theme of the last mermaid.initialize call, "none" before
    currentTheme,       \* "null", "dark", "default"
    isRendering,
    retryCount,
    timers,             \* bag of the callbacks of the pending timers
    loads,              \* pending loadMermaid promises, a bag of [stage, scripts]:
                        \* the script awaited and the scripts appended so far
    initWaiting,        \* initializeMermaid invocations polling in waitForMermaid
    passes,             \* invocations of renderMermaidDiagrams past line 142
    lastCall,           \* what the latest task did: how its call of
                        \* renderMermaidDiagrams or the pass it ended came out
    lastTimers,         \* the timers the latest task set, [fn, delay] each
    icon,               \* the IconLoader singleton and the page it loads into
                        \* (src/utils/icon-loader.ts)
    umami,              \* the Umami statistics cache in localStorage, the
                        \* clock and the requests in flight (unnamed/part_000)
    widget,             \* the WidgetManager singleton (src/utils/widget-manager.ts)
    swup,               \* window.swup and the calls of waitForSwup
                        \* (src/utils/navigation-utils.ts)
    anim                \* the AnimationManager singleton (unnamed/part_000)

page == <<mermaidInitialized, readyState, domReadyListeners, rootClass,
          classNames, mermaid, elements, content>>
\* the state of the Mermaid coordinator
coordinator == <<page, observers, listeners, libTheme, currentTheme,
                 isRendering, retryCount, timers, loads, initWaiting, passes,
                 lastCall, lastTimers>>
\* the state of the other modules of the site
components == <<icon, umami, widget, swup, anim>>
vars == <<coordinator, components>>

Targets == 1..Len(elements)
PassIds == 1..MaxPasses

\* ------------------------------------------------------- target contents
Source == [kind |-> "source", theme |-> "-", filter |-> "-"]
LoadingBox == [kind |-> "loading", theme |-> "-", filter |-> "-"]
ErrorBox == [kind |-> "error", theme |-> "-", filter |-> "-"]
Svg(theme, isDark) ==
    [kind |-> "svg", theme |-> theme,
     filter |-> IF isDark THEN "brightness(0.9) contrast(1.1)" ELSE "none"]

\* the locals of one element's async callback (lines 183-253)
NoTask == [pc |-> "-", attempts |-> 0, calls |-> 0, theme |-> "-", wait |-> 0]
IdlePass == [pc |-> "idle", isDark |-> FALSE, task |-> <<>>]

\* document.documentElement.classList.contains("dark")
DomIsDark == ClassListContains(rootClass, DarkToken)

\* a check that any value of window.mermaid passes
MermaidUsable_always(lib) == TRUE

\* window.mermaid && typeof window.mermaid.<fn> === "function", for a value
\* `lib` of window.mermaid; only the library itself carries the functions
MermaidUsable(lib) == lib = "library"

\* ------------------------------------------------------ coordinator state
\* The closure variables and what hangs on them, as one record, so that the
\* functions of the script are operators from record to record.
Cur == [observers |-> observers, listeners |-> listeners,
        libTheme |-> libTheme, currentTheme |-> currentTheme,
        isRendering |-> isRendering, retryCount |-> retryCount,
        timers |-> timers, loads |-> loads, initWaiting |-> initWaiting,
        passes |-> passes, lastCall |-> "-", lastTimers |-> <<>>]

Commit(s) ==
    /\ observers' = s.observers
    /\ listeners' = s.listeners
    /\ libTheme' = s.libTheme
    /\ currentTheme' = s.currentTheme
    /\ isRendering' = s.isRendering
    /\ retryCount' = s.retryCount
    /\ timers' = s.timers
    /\ loads' = s.loads
    /\ initWaiting' = s.initWaiting
    /\ passes' = s.passes
    /\ lastCall' = s.lastCall
    /\ lastTimers' = s.lastTimers
    /\ UNCHANGED components

TimerOf(fn, delay) == [fn |-> fn, delay |-> delay]

\* setTimeout(fn, delay)
SetTimeout(s, fn, delay) ==
    [s EXCEPT !.timers = @ (+) SetToBag({fn}),
              !.lastTimers = Append(@, TimerOf(fn, delay))]

\* ------------------------------------------------------------------ Init
\* The pages: the data-mermaid-code of the .mermaid[data-mermaid-code]
\* elements, in document order; "" is an empty attribute. Targets are
\* interchangeable, so the empty ones come last.
Pages == {<<>>, <<"graph">>, <<"">>, <<"graph", "graph">>, <<"graph", "">>}

\* the functions that modules pass to IconLoader.onLoad
IconCallbacks == {"a", "b"}

\* the IconLoader after its construction (lines 12-15) on a page without
\* an iconify-icon script: no sequence of loadWithRetry, no call made, no
\* observer; invoked counts the calls of each callback
IconIdle ==
    [isLoaded |-> FALSE, isLoading |-> FALSE, loadPromise |-> 0,
     seqs |-> <<>>, calls |-> 0, appended |-> 0, inDom |-> 0,
     scriptRan |-> FALSE, ready |-> FALSE, last |-> "-",
     observers |-> {}, invoked |-> [c \in IconCallbacks |-> 0],
     onLoads |-> 0]

\* an item of localStorage under the cache key, by what JSON.parse makes
\* of it: "absent" (getItem gives null), "empty" (the empty string),
\* "malformed" (JSON.parse throws), "null" (the text null), "object" (an
\* object without timestamp) or "entry" (what line 42 writes)
StorageItem(kind) == [kind |-> kind, timestamp |-> 0, value |-> "-"]

\* the Umami module on an empty localStorage at time 0
UmamiIdle ==
    [cache |-> StorageItem("absent"), now |-> 0, ticks |-> 0,
     inFlight |-> EmptyBag, calls |-> 0, cleared |-> FALSE,
     last |-> [kind |-> "-", value |-> "-"],
     asked |-> "-", cachedFor |-> "-"]

\* a WidgetManager whose configuration has no component
WidgetIdle == [components |-> <<>>, enabledComponents |-> <<>>, last |-> "-"]

\* a call of waitForSwup not made yet
NoWait ==
    [pc |-> "idle", listener |-> FALSE, timer |-> "none", value |-> "-",
     resolves |-> 0]

\* window.swup not set and waitForSwup not called
SwupIdle == [ready |-> FALSE, waits |-> [i \in 1..MaxSwupCalls |-> NoWait]]

\* the AnimationManager after init (lines 296-298, 310-340): no transition
\* has begun, nothing is queued and no callback has run
AnimIdle ==
    [isAnimating |-> FALSE, animationQueue |-> <<>>, leaves |-> 0,
     enters |-> 0, fired |-> 0, calls |-> 0, ran |-> <<>>]

\* the other modules before any call
ComponentsIdle ==
    /\ icon = IconIdle
    /\ umami = UmamiIdle
    /\ widget = WidgetIdle
    /\ swup = SwupIdle
    /\ anim = AnimIdle

\* The page as the script finds it: one of Pages, the library global
\* absent or already there, the root's class names with or without one that
\* merely contains "dark".
InitCoordinator ==
    /\ mermaidInitialized = FALSE
    /\ readyState \in {"loading", "complete"}
    /\ domReadyListeners = 0
    /\ rootClass = {}
    /\ classNames \in {{DarkToken}, {DarkToken, OtherToken}}
    /\ mermaid \in {"undefined", "library"}
    /\ elements \in Pages
    /\ content = [i \in 1..Len(elements) |-> Source]
    /\ observers = 0
    /\ listeners = 0
    /\ libTheme = "none"
    /\ currentTheme = "null"
    /\ isRendering = FALSE
    /\ retryCount = 0
    /\ timers = EmptyBag
    /\ loads = EmptyBag
    /\ initWaiting = 0
    /\ passes = [p \in PassIds |-> IdlePass]
    /\ lastCall = "-"
    /\ lastTimers = <<>>

Init == InitCoordinator /\ ComponentsIdle

\* ------------------------------------------------------ render scheduler
\* the guard of line 132 left out
PassGuard_never(rendering) == FALSE

\* line 132: the guard against a concurrent pass
PassGuard(rendering) == rendering

\* the loop test of line 187 written with <=
MayAttempt_inclusive(attempts) == attempts <= maxAttempts

\* line 187: the per-element loop goes on while attempts < maxAttempts
\* (line 232 is its negation)
MayAttempt(attempts) == attempts < maxAttempts

\* the budget test written with <=
MayRetry_inclusive(count) == count <= MAX_RETRIES

\* lines 123 and 263: a retry is left in the global budget
MayRetry(count) == count < MAX_RETRIES

\* the delay of a retry without the factor retryCount
RetryDelay_flat(count) == RETRY_DELAY

\* lines 125 and 265: the delay of the retry that raises the count to `count`
RetryDelay(count) == RETRY_DELAY * count

HasFreeSlot == \E p \in PassIds : passes[p].pc = "idle"
FreeSlot(ps) == CHOOSE p \in PassIds :
                    /\ ps[p].pc = "idle"
                    /\ \A q \in 1..(p - 1) : ps[q].pc # "idle"

\* the finally left out
Finally_missing(s) == s

\* the finally of renderMermaidDiagrams (lines 267-269)
Finally(s) == [s EXCEPT !.isRendering = FALSE]

\* a pass that goes on without any element
NoTargets_ignored(n) == FALSE

\* line 149: mermaidElements.length === 0
NoTargets(n) == n = 0

\* renderMermaidDiagrams up to its first await (lines 130-155), with
\* window.mermaid = lib
renderMermaidDiagrams(s, lib) ==
    IF PassGuard(s.isRendering)
    THEN [s EXCEPT !.lastCall = "dropped"]
    ELSE IF ~MermaidUsable(lib)
    THEN [s EXCEPT !.lastCall = "unavailable"]
    ELSE LET s1 == [s EXCEPT !.isRendering = TRUE]
         IN  IF NoTargets(Len(elements))
             THEN Finally([s1 EXCEPT !.lastCall = "empty",
                                     !.isRendering = FALSE])
             ELSE [s1 EXCEPT !.lastCall = "started",
                             !.passes[FreeSlot(s.passes)] =
                                 [pc |-> "delay", isDark |-> FALSE,
                                  task |-> [t \in Targets |-> NoTask]]]

\* a catch that schedules the retry without counting it
RetryCatch_uncounted(s, fn) ==
    IF MayRetry(s.retryCount)
    THEN SetTimeout(s, fn, RetryDelay(s.retryCount + 1))
    ELSE s

\* the catch of renderMermaidDiagrams (lines 259-266) and the catch of
\* initializeMermaid (lines 120-127): fn is retried while the budget lasts
RetryCatch(s, fn) ==
    IF MayRetry(s.retryCount)
    THEN SetTimeout([s EXCEPT !.retryCount = @ + 1], fn,
                    RetryDelay(s.retryCount + 1))
    ELSE s

\* a loop that leaves alone a target showing the terminal error
StartAttempt_skipFailed(tk, t, theme) ==
    IF elements[t] = "" \/ content[t] = ErrorBox
    THEN [task |-> [tk EXCEPT !.pc = "done"], content |-> content[t]]
    ELSE [task |-> [tk EXCEPT !.pc = "render", !.calls = @ + 1,
                              !.theme = theme, !.wait = 0],
          content |-> LoadingBox]

\* one turn of the per-element loop up to its await (lines 188-203), the
\* library being configured with `theme`: the task and the target's content
StartAttempt(tk, t, theme) ==
    IF elements[t] = ""
    THEN [task |-> [tk EXCEPT !.pc = "done"], content |-> content[t]]
    ELSE [task |-> [tk EXCEPT !.pc = "render", !.calls = @ + 1,
                              !.theme = theme, !.wait = 0],
          content |-> LoadingBox]

\* the catch of one attempt (lines 225-251)
FailAttempt(tk, t) ==
    LET n == tk.attempts + 1
    IN  IF ~MayAttempt(n)
        THEN [task |-> [tk EXCEPT !.attempts = n, !.pc = "done"],
              content |-> ErrorBox]
        ELSE [task |-> [tk EXCEPT !.attempts = n, !.pc = "backoff",
                                  !.wait = AttemptBackoff * n],
              content |-> content[t]]

\* lines 205-224: the rendered svg, with the filter of the pass's isDark
FinishAttempt(tk, isDark) ==
    [task |-> [tk EXCEPT !.pc = "done"], content |-> Svg(tk.theme, isDark)]

\* a filter decided by the root's class at the time the render resolves
FilterIsDark_live(p) == DomIsDark

\* lines 216-220: the isDark that decides the filter is the pass's constant
\* of line 158
FilterIsDark(p) == passes[p].isDark

\* a pass that leaves the library's configuration as it finds it
ConfigureLibrary_skipped(s, theme) == s

\* lines 162-179: mermaid.initialize({ theme, ... })
ConfigureLibrary(s, theme) == [s EXCEPT !.libTheme = theme]

\* the continuation of the await of line 155 (lines 157-254): the theme is
\* read, the library is configured (which may throw), every element's
\* callback runs to its first await
PassAfterDelay(p) ==
    /\ passes[p].pc = "delay"
    /\ \E throws \in BOOLEAN :
         LET isDark == DomIsDark
             theme == ThemeOf(isDark)
         IN  IF throws \/ ~MermaidUsable(mermaid)
             THEN /\ Commit(Finally([RetryCatch(Cur, "render") EXCEPT
                                        !.passes[p] = IdlePass,
                                        !.lastCall = "aborted"]))
                  /\ UNCHANGED content
             ELSE LET started == [t \in Targets |->
                                    StartAttempt(passes[p].task[t], t, theme)]
                  IN  /\ Commit([ConfigureLibrary(Cur, theme) EXCEPT
                                !.passes[p] =
                                    [pc |-> "rendering", isDark |-> isDark,
                                     task |-> [t \in Targets |-> started[t].task]]])
                      /\ content' = [t \in Targets |-> started[t].content]
    /\ UNCHANGED <<mermaidInitialized, readyState, domReadyListeners,
                   rootClass, classNames, mermaid, elements>>

SetTask(p, t, r) ==
    /\ Commit([Cur EXCEPT !.passes[p].task[t] = r.task])
    /\ content' = [content EXCEPT ![t] = r.content]
    /\ UNCHANGED <<mermaidInitialized, readyState, domReadyListeners,
                   rootClass, classNames, mermaid, elements>>

\* mermaid.render of target t resolves
RenderResolved(p, t) ==
    /\ passes[p].pc = "rendering"
    /\ passes[p].task[t].pc = "render"
    /\ SetTask(p, t, FinishAttempt(passes[p].task[t], FilterIsDark(p)))

\* mermaid.render of target t rejects
RenderRejected(p, t) ==
    /\ passes[p].pc = "rendering"
    /\ passes[p].task[t].pc = "render"
    /\ SetTask(p, t, FailAttempt(passes[p].task[t], t))

\* the backoff of target t (line 247) is over: the next turn of the loop
BackoffOver(p, t) ==
    /\ passes[p].pc = "rendering"
    /\ passes[p].task[t].pc = "backoff"
    /\ MayAttempt(passes[p].task[t].attempts)
    /\ SetTask(p, t, StartAttempt(passes[p].task[t], t, libTheme))

\* a Promise.all that never resolves
AllSettled_never(p) == FALSE

\* a pass that goes on as soon as one element's callback has returned
AllSettled_any(p) == \E t \in Targets : passes[p].task[t].pc = "done"

\* line 257: Promise.all(renderPromises) resolves when every element's
\* callback has returned
AllSettled(p) == \A t \in Targets : passes[p].task[t].pc = "done"

\* a pass whose targets' terminal errors reach the outer catch
PassSettled_rethrowing(p) ==
    /\ passes[p].pc = "rendering"
    /\ AllSettled(p)
    /\ IF \E t \in Targets : content[t] = ErrorBox
       THEN Commit(Finally([RetryCatch(Cur, "render") EXCEPT
                               !.passes[p] = IdlePass, !.lastCall = "settled"]))
       ELSE Commit(Finally([Cur EXCEPT !.retryCount = 0,
                                       !.passes[p] = IdlePass,
                                       !.lastCall = "settled"]))
    /\ UNCHANGED page

\* Promise.all has resolved (lines 257-258, 268)
PassSettled(p) ==
    /\ passes[p].pc = "rendering"
    /\ AllSettled(p)
    /\ Commit(Finally([Cur EXCEPT !.retryCount = 0, !.passes[p] = IdlePass,
                                  !.lastCall = "settled"]))
    /\ UNCHANGED page

\* ------------------------------------------------------------- bootstrap
\* initializeMermaid after waitForMermaid has resolved (lines 104-127): the
\* baseline configuration, which may throw, then the first render pass
initializeMermaidReady(s, lib, throws) ==
    IF throws THEN RetryCatch(s, "init")
    ELSE renderMermaidDiagrams([s EXCEPT !.libTheme = "default"], lib)

\* initializeMermaid (lines 100-128) with window.mermaid = lib:
\* waitForMermaid's first check (lines 33-43) resolves at once or polls
initializeMermaid(s, lib, throws) ==
    IF MermaidUsable(lib) THEN initializeMermaidReady(s, lib, throws)
    ELSE [s EXCEPT !.initWaiting = @ + 1]

\* a pending loadMermaid promise: the primary script appended (line 316),
\* then the fallback script as well (line 313)
PrimaryLoad == [stage |-> "primary", scripts |-> 1]
FallbackOf(ld) == [stage |-> "fallback", scripts |-> ld.scripts + 1]

\* the early return of line 280 left out
LibraryPresent_never(lib) == FALSE

\* line 280: loadMermaid returns at once when the global is defined;
\* until the library defines it, it is undefined
LibraryPresent(lib) == lib = "library"

\* initializeThemeState (lines 273-276)
initializeThemeState(s, isDark) == [s EXCEPT !.currentTheme = ThemeOf(isDark)]

\* an initialize that goes on into initializeMermaid without awaiting
\* loadMermaid
initialize_notAwaiting(s, lib, isDark, throws) ==
    LET s1 == initializeThemeState(
                  [s EXCEPT !.observers = @ + 1, !.listeners = @ + 1], isDark)
    IN  IF LibraryPresent(lib) THEN initializeMermaid(s1, lib, throws)
        ELSE initializeMermaid(
                 [s1 EXCEPT !.loads = @ (+) SetToBag({PrimaryLoad})],
                 lib, throws)

\* initialize (lines 321-336) up to the await of loadMermaid (lines
\* 279-318); when loadMermaid resolves at once, on into initializeMermaid
initialize(s, lib, isDark, throws) ==
    LET s1 == initializeThemeState(
                  [s EXCEPT !.observers = @ + 1, !.listeners = @ + 1], isDark)
    IN  IF LibraryPresent(lib) THEN initializeMermaid(s1, lib, throws)
        ELSE [s1 EXCEPT !.loads = @ (+) SetToBag({PrimaryLoad})]

\* the catch of initialize retrying as the catch of initializeMermaid does
initializeCatch_retrying(s) ==
    RetryCatch([s EXCEPT !.lastCall = "load rejected"], "init")

\* the catch of initialize (lines 333-335): the rejection of loadMermaid is
\* logged, nothing else
initializeCatch(s) == [s EXCEPT !.lastCall = "load rejected"]

\* the guard of line 3 left out
AlreadyInitialized_never(flag) == FALSE

\* line 3: the singleton guard
AlreadyInitialized(flag) == flag

\* ------------------------------------------------- theme-change detector
\* a hasThemeChanged that reports a change whatever currentTheme is
hasThemeChanged_always(cur, isDark) ==
    [changed |-> TRUE, theme |-> ThemeOf(isDark)]

\* hasThemeChanged (lines 17-26) on a value `cur` of currentTheme: the
\* returned flag and the new currentTheme
hasThemeChanged(cur, isDark) ==
    LET newTheme == ThemeOf(isDark)
    IN  IF cur # newTheme THEN [changed |-> TRUE, theme |-> newTheme]
        ELSE [changed |-> FALSE, theme |-> cur]

\* lines 57-59: mutation.oldValue ? mutation.oldValue.includes("dark") : false
WasDark(oldValue) ==
    IF oldValue = <<>> THEN FALSE ELSE Includes(oldValue, DarkToken)

\* one mutation record in the observer callback (lines 50-69); isDark is
\* the class list at the time of the callback
ObserveRecord(s, oldValue, isDark) ==
    IF WasDark(oldValue) # isDark
    THEN LET r == hasThemeChanged(s.currentTheme, isDark)
         IN  IF r.changed
             THEN SetTimeout([s EXCEPT !.currentTheme = r.theme], "render",
                             ThemeSettleDelay)
             ELSE s
    ELSE s

RECURSIVE ObserveRecords(_, _, _)
ObserveRecords(s, oldValues, isDark) ==
    IF oldValues = <<>> THEN s
    ELSE ObserveRecords(ObserveRecord(s, Head(oldValues), isDark),
                        Tail(oldValues), isDark)

\* the callback of every registered observer, n of them
RECURSIVE ObserverCallbacks(_, _, _, _)
ObserverCallbacks(n, s, oldValues, isDark) ==
    IF n = 0 THEN s
    ELSE ObserverCallbacks(n - 1, ObserveRecords(s, oldValues, isDark),
                           oldValues, isDark)

\* the astro:page-load listener (lines 83-90)
PageLoadListener(s, isDark) ==
    LET s1 == [s EXCEPT !.currentTheme = "null", !.retryCount = 0]
        r == hasThemeChanged(s1.currentTheme, isDark)
    IN  IF r.changed
        THEN SetTimeout([s1 EXCEPT !.currentTheme = r.theme], "render",
                        PageLoadDelay)
        ELSE s1

\* a visibilitychange listener that re-evaluates the theme as the
\* astro:page-load listener does
VisibilityListener_resetting(s, nowHidden) ==
    IF ~nowHidden
    THEN LET r == hasThemeChanged("null", DomIsDark)
         IN  SetTimeout([s EXCEPT !.currentTheme = r.theme], "render",
                        VisibleDelay)
    ELSE s

\* the visibilitychange listener (lines 93-97)
VisibilityListener(s, nowHidden) ==
    IF ~nowHidden THEN SetTimeout(s, "render", VisibleDelay) ELSE s

RECURSIVE PageLoadListeners(_, _, _)
PageLoadListeners(n, s, isDark) ==
    IF n = 0 THEN s
    ELSE PageLoadListeners(n - 1, PageLoadListener(s, isDark), isDark)

RECURSIVE VisibilityListeners(_, _, _)
VisibilityListeners(n, s, nowHidden) ==
    IF n = 0 THEN s
    ELSE VisibilityListeners(n - 1, VisibilityListener(s, nowHidden), nowHidden)

\* classList.add / classList.remove on a class list
ClassOps == {"add", "remove"} \X classNames
ApplyOp(set, op) == IF op[1] = "add" THEN set \cup {op[2]} ELSE set \ {op[2]}

RECURSIVE ApplyOps(_, _)
ApplyOps(set, ops) ==
    IF ops = <<>> THEN set ELSE ApplyOps(ApplyOp(set, Head(ops)), Tail(ops))

\* the oldValue of the mutation record of each write of `ops`
OldValues(set, ops) ==
    [i \in 1..Len(ops) |-> ClassValue(ApplyOps(set, SubSeq(ops, 1, i - 1)))]

OpSeqs == UNION {[1..n -> ClassOps] : n \in 1..MaxBatch}

\* the page's events stop setting timers at MaxTimers pending calls of
\* renderMermaidDiagrams
Bounded(s) ==
    CopiesIn("render", s.timers) > CopiesIn("render", timers)
        => CopiesIn("render", timers) < MaxTimers

\* --------------------------------------------------------------- actions
\* the script is executed (lines 1-7, 339-343)
RunScript ==
    /\ HasFreeSlot
    /\ IF AlreadyInitialized(mermaidInitialized)
       THEN /\ Commit([Cur EXCEPT !.lastCall = "already initialized"])
            /\ UNCHANGED <<mermaidInitialized, domReadyListeners>>
       ELSE /\ mermaidInitialized' = TRUE
            /\ IF readyState = "loading"
               THEN /\ domReadyListeners' = domReadyListeners + 1
                    /\ Commit(Cur)
               ELSE /\ \E throws \in BOOLEAN :
                         Commit(initialize(Cur, mermaid, DomIsDark, throws))
                    /\ UNCHANGED domReadyListeners
    /\ UNCHANGED <<readyState, rootClass, classNames, mermaid, elements,
                   content>>

\* the document has been parsed: the listener of line 340 runs initialize
DOMContentLoaded ==
    /\ HasFreeSlot
    /\ readyState = "loading"
    /\ readyState' = "interactive"
    /\ IF domReadyListeners > 0
       THEN \E throws \in BOOLEAN :
                Commit(initialize(Cur, mermaid, DomIsDark, throws))
       ELSE Commit(Cur)
    /\ UNCHANGED <<mermaidInitialized, domReadyListeners, rootClass,
                   classNames, mermaid, elements, content>>

\* script.onload (lines 289-292) or fallbackScript.onload (lines 300-303):
\* the script has run, with the global defined by now or not yet;
\* loadMermaid resolves and initialize goes on into initializeMermaid
ScriptLoaded(ld, defined) ==
    /\ HasFreeSlot
    /\ BagIn(ld, loads)
    /\ mermaid' = IF defined \/ mermaid = "library" THEN "library" ELSE "loaded"
    /\ \E throws \in BOOLEAN :
         Commit(initializeMermaid(
                    [Cur EXCEPT !.loads = @ (-) SetToBag({ld})],
                    mermaid', throws))
    /\ UNCHANGED <<mermaidInitialized, readyState, domReadyListeners,
                   rootClass, classNames, elements, content>>

\* script.onerror (lines 294-314): the fallback script is appended
PrimaryFailed(ld) ==
    /\ BagIn(ld, loads)
    /\ ld.stage = "primary"
    /\ Commit([Cur EXCEPT
                  !.loads = (@ (-) SetToBag({ld})) (+) SetToBag({FallbackOf(ld)})])
    /\ UNCHANGED page

\* fallbackScript.onerror (lines 305-311): loadMermaid rejects and the
\* catch of initialize (lines 333-335) logs it
FallbackFailed(ld) ==
    /\ BagIn(ld, loads)
    /\ ld.stage = "fallback"
    /\ Commit(initializeCatch([Cur EXCEPT !.loads = @ (-) SetToBag({ld})]))
    /\ UNCHANGED page

\* the library script that has run defines window.mermaid at last
LibraryDefined ==
    /\ mermaid = "loaded"
    /\ mermaid' = "library"
    /\ Commit(Cur)
    /\ UNCHANGED <<mermaidInitialized, readyState, domReadyListeners,
                   rootClass, classNames, elements, content>>

\* a later check of waitForMermaid finds the library (line 34)
WaitResolved ==
    /\ HasFreeSlot
    /\ initWaiting > 0
    /\ MermaidUsable(mermaid)
    /\ \E throws \in BOOLEAN :
         Commit(initializeMermaidReady(
                    [Cur EXCEPT !.initWaiting = @ - 1], mermaid, throws))
    /\ UNCHANGED page

\* a later check of waitForMermaid finds the timeout exceeded (line 36)
WaitTimedOut ==
    /\ initWaiting > 0
    /\ ~MermaidUsable(mermaid)
    /\ Commit(RetryCatch([Cur EXCEPT !.initWaiting = @ - 1], "init"))
    /\ UNCHANGED page

\* a timer set by line 65, 88, 95 or 265 fires
RenderTimerFired ==
    /\ HasFreeSlot
    /\ BagIn("render", timers)
    /\ Commit(renderMermaidDiagrams(
                  [Cur EXCEPT !.timers = @ (-) SetToBag({"render"})], mermaid))
    /\ UNCHANGED page

\* the timer set by line 125 fires
InitTimerFired ==
    /\ HasFreeSlot
    /\ BagIn("init", timers)
    /\ \E throws \in BOOLEAN :
         Commit(initializeMermaid(
                    [Cur EXCEPT !.timers = @ (-) SetToBag({"init"})],
                    mermaid, throws))
    /\ UNCHANGED page

\* the writes `ops` of one task flip the dark class of the class list
\* `set` and flip it back: its presence is the same after them as before
FlipsBack(set, ops) ==
    /\ ClassListContains(ApplyOps(set, ops), DarkToken)
         = ClassListContains(set, DarkToken)
    /\ \E i \in 1..Len(ops) :
           ClassListContains(ApplyOps(set, SubSeq(ops, 1, i)), DarkToken)
             # ClassListContains(set, DarkToken)

\* scripts of the page write the root's class list; the records of one
\* task reach the observers in one callback (lines 49-70)
ClassMutated(ops) ==
    LET final == ApplyOps(rootClass, ops)
        s == ObserverCallbacks(
                 observers,
                 [Cur EXCEPT !.lastCall = IF FlipsBack(rootClass, ops)
                                          THEN "flipped back" ELSE "-"],
                 OldValues(rootClass, ops),
                 ClassListContains(final, DarkToken))
    IN  /\ Bounded(s)
        /\ rootClass' = final
        /\ Commit(s)
        /\ UNCHANGED <<mermaidInitialized, readyState, domReadyListeners,
                       classNames, mermaid, elements, content>>

\* astro:page-load is dispatched
PageLoaded ==
    LET s == PageLoadListeners(listeners, Cur, DomIsDark)
    IN  /\ listeners > 0
        /\ Bounded(s)
        /\ Commit(s)
        /\ UNCHANGED page

\* visibilitychange is dispatched, with document.hidden = nowHidden
VisibilityChanged(nowHidden) ==
    LET s == VisibilityListeners(listeners, Cur, nowHidden)
    IN  /\ listeners > 0
        /\ Bounded(s)
        /\ Commit(s)
        /\ UNCHANGED page

\* what the script and its library do
Coordinator ==
    \/ RunScript
    \/ RenderTimerFired
    \/ InitTimerFired
    \/ \E p \in PassIds : PassAfterDelay(p)
    \/ \E p \in PassIds : \E t \in Targets : RenderResolved(p, t)
    \/ \E p \in PassIds : \E t \in Targets : RenderRejected(p, t)
    \/ \E p \in PassIds : \E t \in Targets : BackoffOver(p, t)
    \/ \E p \in PassIds : PassSettled(p)

\* the events of the page
Events ==
    \/ \E ops \in OpSeqs : ClassMutated(ops)
    \/ PageLoaded
    \/ \E nowHidden \in BOOLEAN : VisibilityChanged(nowHidden)

\* the library arriving
Loading ==
    \/ DOMContentLoaded
    \/ \E ld \in BagToSet(loads) : \E defined \in BOOLEAN : ScriptLoaded(ld, defined)
    \/ \E ld \in BagToSet(loads) : PrimaryFailed(ld)
    \/ \E ld \in BagToSet(loads) : FallbackFailed(ld)
    \/ LibraryDefined
    \/ WaitResolved
    \/ WaitTimedOut

Next == Coordinator \/ Events \/ Loading

\* every page, every way of the library arriving
Spec == Init /\ [][Next]_vars

\* The render scheduler on a page whose library is already there when the
\* script runs after the document has been parsed; the root's class names
\* are "dark" alone.
InitRender ==
    /\ Init
    /\ mermaid = "library"
    /\ readyState = "complete"
    /\ classNames = {DarkToken}

NextRender == Coordinator \/ Events

SpecRender == InitRender /\ [][NextRender]_vars

\* the steps of pass p itself: the continuations of its awaits
PassStep(p) ==
    \/ PassAfterDelay(p)
    \/ \E t \in Targets : RenderResolved(p, t)
    \/ \E t \in Targets : RenderRejected(p, t)
    \/ \E t \in Targets : BackoffOver(p, t)
    \/ PassSettled(p)

\* The render scheduler when every timer fires and every mermaid.render
\* call settles: the continuation of a pending await is eventually run.
SpecRenderFair == SpecRender /\ WF_vars(\E p \in PassIds : PassStep(p))

\* The bootstrap on pages of at most one target, the library arriving in
\* every way; the root's class names are "dark" alone.
InitBoot ==
    /\ Init
    /\ Len(elements) <= 1
    /\ classNames = {DarkToken}

SpecBoot == InitBoot /\ [][Next]_vars

\* The theme-change detector with a root class name that contains "dark",
\* on pages of at most one target whose library is already there.
InitTheme ==
    /\ Init
    /\ Len(elements) <= 1
    /\ elements # <<"">>
    /\ mermaid = "library"
    /\ readyState = "complete"

SpecTheme == InitTheme /\ [][NextRender]_vars

\* The theme-change detector and the event listeners alone, on a page
\* without targets: every call of renderMermaidDiagrams ends at line 151.
InitDetector ==
    /\ Init
    /\ elements = <<>>
    /\ mermaid = "library"
    /\ readyState = "complete"

NextDetector ==
    \/ RunScript
    \/ RenderTimerFired
    \/ InitTimerFired
    \/ Events

SpecDetector == InitDetector /\ [][NextDetector]_vars

\* ================================================================ claims
ActivePasses == {p \in PassIds : passes[p].pc # "idle"}

\* C1: at most one invocation of renderMermaidDiagrams is between setting
\* isRendering and clearing it, and a call made while isRendering is true
\* is dropped: it changes no target, not the library configuration, not
\* isRendering, not retryCount, and sets no timer.
C1_AtMostOnePass ==
    /\ [](Cardinality(ActivePasses) <= 1)
    /\ [][(RenderTimerFired /\ isRendering)
            => /\ lastCall' = "dropped"
               /\ lastTimers' = <<>>
               /\ timers' = timers (-) SetToBag({"render"})
               /\ UNCHANGED <<content, libTheme, isRendering, retryCount,
                              passes>>]_vars
    /\ [][lastCall' = "dropped"
            => /\ isRendering
               /\ UNCHANGED <<content, isRendering, retryCount, passes>>]_vars

\* a trigger has been dropped while the one pass is rendering
C1_Witness ==
    /\ lastCall = "dropped"
    /\ isRendering
    /\ \E p \in PassIds : passes[p].pc = "rendering"

\* C2: a target whose render fails every time is attempted exactly 3
\* times, shows the placeholder during each attempt, and after the third
\* failure shows the terminal error and is done.
C2_ThreeAttempts ==
    \A p \in ActivePasses : \A t \in DOMAIN passes[p].task :
        LET tk == passes[p].task[t]
        IN  /\ tk.attempts <= 3 /\ tk.calls <= 3
            /\ tk.pc = "render"
                 => /\ content[t] = LoadingBox
                    /\ tk.calls = tk.attempts + 1
            /\ tk.pc = "backoff"
                 => /\ tk.attempts \in 1..2
                    /\ tk.calls = tk.attempts
                    /\ tk.wait = 500 * tk.attempts
            /\ tk.attempts = 3
                 => /\ tk.pc = "done"
                    /\ tk.calls = 3
                    /\ content[t] = ErrorBox
            /\ (tk.pc = "done" /\ content[t] = ErrorBox) => tk.attempts = 3

\* a target has failed three times and shows the terminal error
C2_Witness ==
    \E p \in ActivePasses : \E t \in DOMAIN passes[p].task :
        /\ passes[p].task[t].pc = "done"
        /\ passes[p].task[t].attempts = 3
        /\ passes[p].task[t].calls = 3
        /\ content[t] = ErrorBox

\* C3: an observed class mutation after which the root's dark-class
\* presence differs from currentTheme updates currentTheme and sets exactly
\* one timer for renderMermaidDiagrams, with the settling delay of 150 ms;
\* one after which it equals currentTheme leaves currentTheme alone and
\* sets no timer.
C3_ThemeFlipSchedulesOnce ==
    [][(observers = 1 /\ \E ops \in OpSeqs : ClassMutated(ops))
         => LET nowTheme == IF DarkToken \in rootClass' THEN "dark"
                            ELSE "default"
            IN  IF nowTheme # currentTheme
                THEN /\ currentTheme' = nowTheme
                     /\ lastTimers' = <<[fn |-> "render", delay |-> 150]>>
                     /\ timers' = timers (+) SetToBag({"render"})
                ELSE /\ currentTheme' = currentTheme
                     /\ lastTimers' = <<>>
                     /\ timers' = timers]_vars

\* C4: a second run of the script returns at the window.mermaidInitialized
\* guard: it registers no observer and no listener, appends no script and
\* does not call initialize, so that one page lifetime has one observer,
\* one pair of listeners, and one loadMermaid call.
C4_BootstrapOnce ==
    /\ [](/\ observers <= 1 /\ listeners <= 1 /\ domReadyListeners <= 1
          /\ BagCardinality(loads) <= 1)
    /\ [][(RunScript /\ mermaidInitialized)
            => UNCHANGED <<page, observers, listeners, libTheme, currentTheme,
                           isRendering, retryCount, timers, loads,
                           initWaiting, passes>>]_vars
    /\ [][BagCardinality(loads') > BagCardinality(loads)
            => /\ observers = 0 /\ observers' = 1
               /\ loads' = SetToBag({[stage |-> "primary", scripts |-> 1]})]_vars

\* the script has run again after the bootstrap it started
C4_Witness ==
    /\ lastCall = "already initialized"
    /\ observers = 1
    /\ listeners = 1

C6_PrimaryThenFallback ==
    /\ [](\A ld \in BagToSet(loads) :
             \/ ld.stage = "primary" /\ ld.scripts = 1
             \/ ld.stage = "fallback" /\ ld.scripts = 2)
    /\ [][observers' = observers + 1
            => IF mermaid = "undefined"
               THEN loads' = loads (+)
                                SetToBag({[stage |-> "primary", scripts |-> 1]})
               ELSE loads' = loads]_vars
    /\ [][\A ld \in BagToSet(loads') :
              (ld.stage = "fallback" /\ ~BagIn(ld, loads))
                => /\ BagIn([stage |-> "primary", scripts |-> 1], loads)
                   /\ loads' = SetToBag({ld})
                   /\ lastCall' = "-"
                   /\ UNCHANGED <<page, initWaiting, timers, passes>>]_vars
    /\ [][\A ld \in BagToSet(loads) : \A defined \in BOOLEAN :
              ScriptLoaded(ld, defined)
                => /\ loads' = loads (-) SetToBag({ld})
                   /\ lastCall' # "load rejected"
                   /\ \/ initWaiting' = initWaiting + 1
                      \/ libTheme' = "default"
                      \/ lastTimers' = <<[fn |-> "init",
                                          delay |-> 1000 * retryCount']>>
                      \/ retryCount = 3]_vars
    /\ [][lastCall' = "load rejected"
            <=> \E ld \in BagToSet(loads) :
                    /\ ld = [stage |-> "fallback", scripts |-> 2]
                    /\ FallbackFailed(ld)]_vars

\* the primary script has failed and the fallback script is awaited
C6_Witness ==
    /\ loads = SetToBag({[stage |-> "fallback", scripts |-> 2]})
    /\ mermaid = "undefined"
    /\ initWaiting = 0

\* C7 as stated: a target that shows the terminal error keeps it, whatever
\* pass runs later.
C7_ErroredTargetLeftAlone ==
    [][\A t \in Targets : content[t] = ErrorBox => content'[t] = ErrorBox]_vars

\* C7, amended: a target that has reached the terminal error is not
\* attempted again by the pass that gave up on it, and keeps the error while
\* that pass lasts and while no pass runs; every later pass, however it was
\* triggered, collects the target again and attempts it afresh: placeholder,
\* attempts counted from 0.
C7_ErroredTargetRetriedByLaterPass ==
    /\ [][\A p \in PassIds : \A t \in Targets :
              (/\ passes[p].pc = "rendering"
               /\ passes[p].task[t].pc = "done"
               /\ content[t] = ErrorBox)
                => /\ content'[t] = ErrorBox
                   /\ passes'[p].pc = "rendering"
                        => passes'[p].task[t] = passes[p].task[t]]_vars
    /\ [][\A t \in Targets :
              (content[t] = ErrorBox /\ content'[t] # ErrorBox)
                => \E p \in PassIds :
                       /\ passes[p].pc = "delay"
                       /\ passes'[p].pc = "rendering"]_vars
    /\ [][\A p \in PassIds : \A t \in Targets :
              (/\ passes[p].pc = "delay"
               /\ passes'[p].pc = "rendering"
               /\ elements[t] # "")
                => /\ content'[t] = LoadingBox
                   /\ passes'[p].task[t].pc = "render"
                   /\ passes'[p].task[t].attempts = 0
                   /\ passes'[p].task[t].calls = 1]_vars

\* a later pass is about to attempt a target that shows the terminal error
C7_Witness ==
    \E p \in PassIds : \E t \in Targets :
        /\ passes[p].pc = "delay"
        /\ content[t] = ErrorBox
        /\ elements[t] # ""

\* C8: every attempt of a pass is rendered with the library theme of the
\* isDark the pass read once, and every svg the pass produces carries that
\* theme and the filter of that isDark.
C8_ThemeSnapshotAuthoritative ==
    \A p \in PassIds :
        passes[p].pc = "rendering"
          => \A t \in Targets :
                 LET tk == passes[p].task[t]
                     want == IF passes[p].isDark THEN "dark" ELSE "default"
                 IN  /\ tk.pc = "render" => tk.theme = want
                     /\ (tk.pc = "done" /\ content[t].kind = "svg")
                          => /\ content[t].theme = want
                             /\ content[t].filter =
                                    IF passes[p].isDark
                                    THEN "brightness(0.9) contrast(1.1)"
                                    ELSE "none"

\* C9: isRendering is true exactly while an invocation of
\* renderMermaidDiagrams is between line 142 and its end: it is set before
\* the first await and is false after every exit (no targets, all targets
\* settled, exception at pass level).
C9_FlagClearedOnEveryExit ==
    /\ [](isRendering <=> ActivePasses # {})
    /\ [][lastCall' \in {"empty", "settled", "aborted"}
            => ~isRendering' /\ ActivePasses' = {}]_vars
    /\ [][lastCall' = "started"
            => ~isRendering /\ isRendering' /\ ActivePasses' # {}]_vars

\* a pass has ended in its catch and the flag is clear
C9_Witness ==
    /\ lastCall = "aborted"
    /\ ~isRendering
    /\ ActivePasses = {}

\* C10 as stated: a pass that fails at pass level with budget left
\* reschedules the bootstrap, initializeMermaid, with linear backoff.
C10_AbortReschedulesBootstrap ==
    [][(lastCall' = "aborted" /\ retryCount < 3)
         => lastTimers' = <<[fn |-> "init",
                             delay |-> 1000 * (retryCount + 1)]>>]_vars

\* C10, amended: a pass that fails at pass level aborts, changing no
\* target; while retryCount < 3 it counts the retry and reschedules
\* renderMermaidDiagrams alone, not the bootstrap, after 1000 ms times the
\* new count; at retryCount = 3 it schedules nothing.
C10_AbortReschedulesRender ==
    [][lastCall' = "aborted"
         => /\ UNCHANGED <<content, libTheme, initWaiting, loads>>
            /\ ~isRendering'
            /\ IF retryCount < 3
               THEN /\ retryCount' = retryCount + 1
                    /\ lastTimers' = <<[fn |-> "render",
                                        delay |-> 1000 * retryCount']>>
                    /\ timers' = timers (+) SetToBag({"render"})
               ELSE /\ UNCHANGED <<retryCount, timers>>
                    /\ lastTimers' = <<>>]_vars

\* a pass has failed at pass level with the budget exhausted
C10_Witness ==
    /\ lastCall = "aborted"
    /\ retryCount = 3
    /\ lastTimers = <<>>

C13_FailuresIsolated ==
    /\ [](\A p \in PassIds :
             passes[p].pc = "rendering"
               => \A t \in Targets :
                      LET tk == passes[p].task[t]
                      IN  (tk.pc = "done" /\ elements[t] # "")
                            => IF tk.attempts < 3
                               THEN /\ content[t].kind = "svg"
                                    /\ content[t].filter =
                                          IF passes[p].isDark
                                          THEN "brightness(0.9) contrast(1.1)"
                                          ELSE "none"
                               ELSE content[t] = ErrorBox)
    /\ [][\A p \in PassIds : \A t \in Targets :
              RenderRejected(p, t)
                => \A u \in Targets \ {t} :
                       /\ content'[u] = content[u]
                       /\ passes'[p].task[u] = passes[p].task[u]]_vars
    /\ [][lastCall' = "settled"
            => \E p \in PassIds :
                   /\ passes[p].pc = "rendering"
                   /\ passes'[p].pc = "idle"
                   /\ \A t \in Targets : passes[p].task[t].pc = "done"
                   /\ content' = content]_vars

\* a dark pass over two targets: the first shows its svg with the dark
\* filter, the second has failed 3 times and shows the terminal error
C13_Witness ==
    \E p \in PassIds :
        /\ passes[p].pc = "rendering"
        /\ passes[p].isDark
        /\ Len(elements) = 2
        /\ passes[p].task[1].pc = "done"
        /\ content[1].kind = "svg"
        /\ content[1].filter = "brightness(0.9) contrast(1.1)"
        /\ passes[p].task[2].pc = "done"
        /\ passes[p].task[2].attempts = 3
        /\ content[2] = ErrorBox

\* C14 as stated: every pass that ends leaves every collected target
\* rendered or showing the terminal error.
C14_EveryPassSettlesItsTargets ==
    [][(isRendering /\ ~isRendering')
         => \A t \in Targets : content'[t].kind \in {"svg", "error"}]_vars

\* C14, amended: when every timer fires and every render call settles,
\* every started pass eventually ends (isRendering false); while it runs,
\* only the continuations of its own awaits change it or any target, no
\* trigger does; a pass that ends through Promise.all leaves every target
\* that has code rendered or showing the terminal error (a target with an
\* empty data-mermaid-code is left as it was); a pass that fails at pass
\* level ends with every target as it was.
C14_PassRunsToCompletion ==
    /\ isRendering ~> ~isRendering
    /\ [][\A p \in PassIds :
              passes[p].pc # "idle"
                => passes'[p] = passes[p] \/ PassStep(p)]_vars
    /\ [][content' # content => \E p \in PassIds : PassStep(p)]_vars
    /\ [][lastCall' = "settled"
            => \A t \in Targets :
                   IF elements[t] # ""
                   THEN content'[t].kind \in {"svg", "error"}
                   ELSE content'[t] = content[t]]_vars
    /\ [][lastCall' = "aborted" => content' = content]_vars

\* a pass has ended through Promise.all: one target rendered, and one
\* without code left as it was
C14_Witness ==
    /\ lastCall = "settled"
    /\ ~isRendering
    /\ Len(elements) = 2
    /\ content[1].kind = "svg"
    /\ elements[2] = ""
    /\ content[2] = Source

\* C19: a pass that finds no target ends at once: isRendering is false
\* again, the library is not configured, no target is changed, no pass is
\* left in flight and no timer is set.
C19_EmptyPassEndsAtOnce ==
    /\ [][(/\ Len(elements) = 0
            /\ ~isRendering
            /\ MermaidUsable(mermaid)
            /\ BagIn("render", timers)
            /\ timers' = timers (-) SetToBag({"render"}))
            => /\ lastCall' = "empty"
               /\ ~isRendering'
               /\ libTheme' = libTheme
               /\ content' = content
               /\ passes' = passes
               /\ retryCount' = retryCount
               /\ lastTimers' = <<>>]_vars
    /\ [][lastCall' = "empty"
            => /\ Len(elements) = 0
               /\ ~isRendering'
               /\ content' = content
               /\ passes' = passes
               /\ lastTimers' = <<>>]_vars

\* a render timer set by a theme change has fired on a page without
\* targets, the library being there
C19_Witness ==
    /\ lastCall = "empty"
    /\ Len(elements) = 0
    /\ currentTheme = "dark"
    /\ libTheme = "default"
    /\ ~isRendering
    /\ timers = EmptyBag

\* C20: a pass with targets configures the library's theme once, in the
\* step that follows its 100 ms delay and before the first attempt of any
\* target; the attempts and retries of the pass, and its end, do not
\* configure it again.
C20_ThemeConfiguredOncePerPass ==
    /\ [](\A p \in PassIds :
            passes[p].pc = "delay"
              => \A t \in Targets : passes[p].task[t].calls = 0)
    /\ [][\A p \in PassIds :
            (passes[p].pc = "delay" /\ passes'[p].pc = "rendering")
              => /\ libTheme' = ThemeOf(passes'[p].isDark)
                 /\ \A t \in Targets :
                       /\ passes'[p].task[t].calls <= 1
                       /\ passes'[p].task[t].calls = 1
                            => passes'[p].task[t].theme = libTheme']_vars
    /\ [][\A p \in PassIds :
            (passes[p].pc = "rendering" /\ passes'[p] # passes[p])
              => libTheme' = libTheme]_vars

\* a pass on a dark page has configured the library and a target is in its
\* second attempt
C20_Witness ==
    \E p \in PassIds :
        /\ passes[p].pc = "rendering"
        /\ passes[p].isDark
        /\ libTheme = "dark"
        /\ \E t \in Targets : /\ passes[p].task[t].calls = 2
                                /\ passes[p].task[t].pc = "render"

\* C21: while the library's render function is not there, every trigger of
\* renderMermaidDiagrams is a no-op: the trigger only sets its timer and
\* does not raise retryCount, and the call the timer makes starts no pass,
\* leaves isRendering false, changes no target, sets no timer and leaves
\* retryCount and the library's configuration as they are.
C21_UnavailableLibraryNoOp ==
    /\ [](mermaid # "library"
            => /\ ~isRendering
               /\ \A p \in PassIds : passes[p].pc = "idle"
               /\ \A t \in Targets : content[t] = Source)
    /\ [][(/\ mermaid # "library"
            /\ mermaid' = mermaid
            /\ BagIn("render", timers)
            /\ timers' = timers (-) SetToBag({"render"}))
            => /\ lastCall' = "unavailable"
               /\ isRendering' = isRendering
               /\ passes' = passes
               /\ content' = content
               /\ retryCount' = retryCount
               /\ libTheme' = libTheme
               /\ lastTimers' = <<>>]_vars
    /\ [][(/\ mermaid # "library"
            /\ CopiesIn("render", timers') > CopiesIn("render", timers))
            => /\ retryCount' <= retryCount
               /\ isRendering' = isRendering
               /\ passes' = passes
               /\ content' = content]_vars

\* a render timer set by a trigger has fired before the library was there
C21_Witness ==
    /\ lastCall = "unavailable"
    /\ mermaid # "library"
    /\ observers > 0
    /\ Len(elements) = 1
    /\ elements[1] # ""
    /\ content[1] = Source
    /\ ~isRendering

\* C22: as long as the primary script has been appended and neither its
\* load nor its error callback has run, the coordinator stalls: the library
\* is not there and has not been configured, waitForMermaid has not been
\* entered, no retry of initializeMermaid is pending, retryCount is 0, no
\* pass runs and no target has been changed; nothing but one of the two
\* callbacks ends the wait.
C22_StallsWithoutLoadCallbacks ==
    /\ [](BagIn(PrimaryLoad, loads)
            => /\ mermaid = "undefined"
               /\ libTheme = "none"
               /\ initWaiting = 0
               /\ ~BagIn("init", timers)
               /\ retryCount = 0
               /\ ~isRendering
               /\ \A p \in PassIds : passes[p].pc = "idle"
               /\ \A t \in Targets : content[t] = Source)
    /\ [][(BagIn(PrimaryLoad, loads) /\ ~BagIn(PrimaryLoad, loads'))
            => \/ mermaid' # "undefined"
               \/ BagIn(FallbackOf(PrimaryLoad), loads')]_vars

\* the primary script is pending and a trigger's render call has come and
\* gone
C22_Witness ==
    /\ BagIn(PrimaryLoad, loads)
    /\ lastCall = "unavailable"
    /\ currentTheme = "dark"
    /\ Len(elements) = 1
    /\ content[1] = Source

\* no pass is active and no render timer is pending
Quiescent ==
    /\ ~isRendering
    /\ ActivePasses = {}
    /\ ~BagIn("render", timers)

C24_RetryBudgetShared ==
    /\ [](retryCount \in 0..3)
    /\ [][(\E i \in DOMAIN lastTimers' : lastTimers'[i].delay >= 1000)
            => /\ retryCount < 3
               /\ retryCount' = retryCount + 1
               /\ lastTimers' \in {<<TimerOf("init", 1000 * retryCount')>>,
                                   <<TimerOf("render", 1000 * retryCount')>>}
          ]_vars
    /\ [][retryCount' # retryCount
            => \/ /\ retryCount' = retryCount + 1
                  /\ \E i \in DOMAIN lastTimers' : lastTimers'[i].delay >= 1000
               \/ /\ retryCount' = 0
                  /\ \/ lastCall' = "settled"
                     \/ \E i \in DOMAIN lastTimers' :
                           lastTimers'[i] = TimerOf("render", 100)]_vars

\* the budget is used up and a pass that failed has scheduled nothing
C24_Witness ==
    /\ retryCount = 3
    /\ lastCall = "aborted"
    /\ lastTimers = <<>>
    /\ timers = EmptyBag

\* C25: a failed attempt of a target, the third included, leaves
\* retryCount and the timers as they are, and a pass that ends with targets
\* in the terminal error state ends like any settled pass: retryCount is 0
\* and no retry of the pass or of the bootstrap is scheduled.
C25_TargetFailuresStayLocal ==
    /\ [][\A p \in PassIds : \A t \in DOMAIN passes[p].task :
            (/\ passes[p].task[t].pc = "render"
             /\ passes'[p].pc = "rendering"
             /\ passes'[p].task[t].attempts = passes[p].task[t].attempts + 1)
              => /\ retryCount' = retryCount
                 /\ timers' = timers
                 /\ lastTimers' = <<>>
                 /\ isRendering'
                 /\ passes'[p].task[t].pc \in {"backoff", "done"}]_vars
    /\ [][(lastCall' = "settled" /\ \E t \in Targets : content[t] = ErrorBox)
            => /\ retryCount' = 0
               /\ timers' = timers
               /\ lastTimers' = <<>>
               /\ content' = content]_vars

\* a pass has settled with one target rendered and the other in the
\* terminal error state, nothing being scheduled
C25_Witness ==
    /\ lastCall = "settled"
    /\ Len(elements) = 2
    /\ content[1] = ErrorBox
    /\ content[2].kind = "svg"
    /\ retryCount = 0
    /\ timers = EmptyBag

\* =============================================================== IconLoader
\* src/utils/icon-loader.ts. icon.seqs holds every invocation of
\* loadWithRetry, in the order they were started: its position (pc), its
\* attempt, its retryCount option and whether the loadIconify call that
\* started it still awaits it; icon.loadPromise is the index of the one
\* this.loadPromise refers to, 0 for null. Every action is one task or
\* microtask.
\* the values of the option retryCount; 0 is a configuration without
\* retries taken literally
IconRetryOptions == {0, 1, 3}

IconSettled(sq) == sq.pc \in {"resolved", "rejected"}
IconRunning == {i \in DOMAIN icon.seqs : ~IconSettled(icon.seqs[i])}

\* isIconifyReady (lines 156-162)
isIconifyReady(ic) == ic.ready

\* loadScript (lines 87-126) for the sequence sq: resolved at once when a
\* script is in the document and iconify is ready, else a script is
\* appended and awaited
loadScript(ic, sq) ==
    IF ic.inDom > 0 /\ isIconifyReady(ic)
    THEN [ic |-> ic, sq |-> [sq EXCEPT !.pc = "resolved"]]
    ELSE [ic |-> [ic EXCEPT !.appended = @ + 1, !.inDom = @ + 1],
          sq |-> [sq EXCEPT !.pc = "script"]]

\* the catch of loadWithRetry (lines 69-80): the last attempt throws,
\* another one waits retryDelay
loadWithRetryCatch(sq) ==
    IF sq.attempt = sq.retryCount THEN [sq EXCEPT !.pc = "rejected"]
    ELSE [sq EXCEPT !.pc = "delay"]

\* the loop of loadWithRetry (lines 65-67) at its test, sq.attempt
\* attempts having failed: the next attempt, or the end of the function,
\* whose promise resolves
loadWithRetry(ic, sq) ==
    IF sq.attempt + 1 <= sq.retryCount
    THEN loadScript(ic, [sq EXCEPT !.attempt = @ + 1])
    ELSE [ic |-> ic, sq |-> [sq EXCEPT !.pc = "resolved"]]

\* an onLoad that always adds the callback to the observers
onLoad_deferred(ic, callback) ==
    [ic EXCEPT !.observers = @ \cup {callback}, !.last = "onLoad"]

\* onLoad (lines 167-173)
onLoad(ic, callback) ==
    IF ic.isLoaded
    THEN [ic EXCEPT !.invoked[callback] = @ + 1, !.last = "onLoad"]
    ELSE [ic EXCEPT !.observers = @ \cup {callback}, !.last = "onLoad"]

\* notifyObservers (lines 185-194): every observer is called, its
\* exception caught, and the set is cleared
notifyObservers(ic) ==
    [ic EXCEPT !.invoked = [c \in DOMAIN @ |->
                               IF c \in ic.observers THEN @[c] + 1 ELSE @[c]],
               !.observers = {}]

\* a test that takes any kept promise for a load in progress
InFlight_stale(ic) == ic.loadPromise # 0

\* the test of line 38 left out
InFlight_never(ic) == FALSE

\* line 38: a load is in progress and its promise is kept
InFlight(ic) == ic.isLoading /\ ic.loadPromise # 0

\* loadIconify (lines 29-46) up to its await, with retryCount = rc
loadIconify(ic, rc) ==
    IF ic.isLoaded THEN [ic EXCEPT !.last = "immediate"]
    ELSE IF InFlight(ic) THEN [ic EXCEPT !.last = "joined"]
    ELSE LET r == loadWithRetry(ic, [pc |-> "-", attempt |-> 0,
                                     retryCount |-> rc, caller |-> "awaiting"])
         IN  [r.ic EXCEPT !.isLoading = TRUE,
                          !.seqs = Append(@, r.sq),
                          !.loadPromise = Len(ic.seqs) + 1,
                          !.last = "started"]

IconFrame == UNCHANGED <<coordinator, umami, widget, swup, anim>>

\* some module calls loadIconify
LoadIconifyCalled(rc) ==
    /\ icon.calls < MaxIconCalls
    /\ icon' = [loadIconify(icon, rc) EXCEPT !.calls = @ + 1]
    /\ IconFrame

\* script.onload (lines 112-116): waitForIconifyReady's first check
IconScriptLoaded(i) ==
    /\ icon.seqs[i].pc = "script"
    /\ icon' = [icon EXCEPT !.scriptRan = TRUE, !.last = "-",
                            !.seqs[i].pc = IF isIconifyReady(icon)
                                           THEN "resolved" ELSE "ready"]
    /\ IconFrame

\* script.onerror (lines 118-122) or the timeout of lines 107-110: the
\* script is removed, loadScript rejects
IconScriptFailed(i) ==
    /\ icon.seqs[i].pc = "script"
    /\ icon' = [icon EXCEPT !.inDom = @ - 1, !.last = "-",
                            !.seqs[i] = loadWithRetryCatch(@)]
    /\ IconFrame

\* a later check of waitForIconifyReady (lines 135-147) finds it ready
IconReadyResolved(i) ==
    /\ icon.seqs[i].pc = "ready"
    /\ isIconifyReady(icon)
    /\ icon' = [icon EXCEPT !.seqs[i].pc = "resolved", !.last = "-"]
    /\ IconFrame

\* a later check of waitForIconifyReady finds maxWait exceeded
IconReadyTimedOut(i) ==
    /\ icon.seqs[i].pc = "ready"
    /\ ~isIconifyReady(icon)
    /\ icon' = [icon EXCEPT !.seqs[i] = loadWithRetryCatch(@), !.last = "-"]
    /\ IconFrame

\* the retry delay (line 79) is over: the next attempt
IconRetryDelayOver(i) ==
    /\ icon.seqs[i].pc = "delay"
    /\ LET r == loadWithRetry(icon, icon.seqs[i])
       IN  icon' = [r.ic EXCEPT !.seqs[i] = r.sq, !.last = "-"]
    /\ IconFrame

\* the script that has run defines the iconify-icon element
IconifyDefined ==
    /\ icon.scriptRan
    /\ ~icon.ready
    /\ icon' = [icon EXCEPT !.ready = TRUE, !.last = "-"]
    /\ IconFrame

\* the continuation of the await of line 46 (lines 47-54)
IconCallerContinues(i) ==
    /\ IconSettled(icon.seqs[i])
    /\ icon.seqs[i].caller = "awaiting"
    /\ LET ic == [icon EXCEPT !.isLoading = FALSE,
                              !.seqs[i].caller = "done",
                              !.last = "-"]
       IN  icon' = IF icon.seqs[i].pc = "resolved"
                   THEN notifyObservers([ic EXCEPT !.isLoaded = TRUE])
                   ELSE ic
    /\ IconFrame

\* some module calls onLoad (or onIconsReady, line 264)
OnLoadCalled(callback) ==
    /\ icon.onLoads < MaxOnLoads
    /\ icon' = [onLoad(icon, callback) EXCEPT !.onLoads = @ + 1]
    /\ IconFrame

\* offLoad (lines 178-180)
offLoad(callback) ==
    /\ icon' = [icon EXCEPT !.observers = @ \ {callback}, !.last = "offLoad"]
    /\ IconFrame

NextIcon ==
    \/ \E rc \in IconRetryOptions : LoadIconifyCalled(rc)
    \/ \E i \in DOMAIN icon.seqs : IconScriptLoaded(i)
    \/ \E i \in DOMAIN icon.seqs : IconScriptFailed(i)
    \/ \E i \in DOMAIN icon.seqs : IconReadyResolved(i)
    \/ \E i \in DOMAIN icon.seqs : IconReadyTimedOut(i)
    \/ \E i \in DOMAIN icon.seqs : IconRetryDelayOver(i)
    \/ IconifyDefined
    \/ \E i \in DOMAIN icon.seqs : IconCallerContinues(i)
    \/ \E callback \in IconCallbacks : OnLoadCalled(callback)
    \/ \E callback \in IconCallbacks : offLoad(callback)

\* the page before the Mermaid script runs
CoordinatorIdle ==
    /\ InitCoordinator
    /\ readyState = "complete"
    /\ classNames = {DarkToken}
    /\ mermaid = "undefined"
    /\ elements = <<>>

InitIcon == CoordinatorIdle /\ ComponentsIdle

SpecIcon == InitIcon /\ [][NextIcon]_vars

\* C15: at most one sequence of loadWithRetry runs at a time; a call of
\* loadIconify while a load is in progress starts none and appends no
\* script, it gets the promise in flight; a call after a successful load
\* returns at once and appends no script.
C15_OneLoadInFlight ==
    /\ [](Cardinality(IconRunning) <= 1)
    /\ [][(icon'.calls = icon.calls + 1 /\ icon.isLoading
            /\ icon.loadPromise # 0)
            => /\ icon'.last = "joined"
               /\ icon' = [icon EXCEPT !.calls = @ + 1, !.last = "joined"]]_vars
    /\ [][(icon'.calls = icon.calls + 1 /\ icon.isLoaded)
            => icon' = [icon EXCEPT !.calls = @ + 1, !.last = "immediate"]]_vars
    /\ [][Len(icon'.seqs) > Len(icon.seqs)
            => /\ IconRunning = {}
               /\ ~icon.isLoaded
               /\ ~icon.isLoading]_vars

\* a call has joined the load in progress, which still awaits its script
C15_Witness ==
    /\ icon.last = "joined"
    /\ icon.isLoading
    /\ Len(icon.seqs) = 1
    /\ icon.seqs[1].pc = "script"

\* ============================================================ Umami cache
\* unnamed/part_000, lines 1-109. umami.inFlight is the bag of the fetch
\* requests of fetchWebsiteStats awaiting their response, each the website
\* of its statsUrl; umami.cleared tells that clearUmamiShareCache has been
\* called since the latest call of getUmamiWebsiteStats; umami.last is how
\* that call came out and umami.asked the website it was made for;
\* umami.cachedFor is the website of the request whose response wrote the
\* cache last (localStorage itself keeps the timestamp and the value only).
StatsValues == {"stats-1", "stats-2"}

\* the websites a caller asks for: a value stands for the baseUrl and the
\* websiteId that make the statsUrl of line 27
WebsiteIds == {"site-1", "site-2"}

\* line 42: JSON.stringify({ timestamp, value })
CacheEntry(timestamp, value) ==
    [kind |-> "entry", timestamp |-> timestamp, value |-> value]

\* lines 15-20: the item parses and Date.now() - parsed.timestamp < cacheTTL
\* (without a timestamp the difference is NaN and the test fails)
IsFresh(item, now) == item.kind = "entry" /\ now - item.timestamp < cacheTTL

\* lines 16-23: an item that makes JSON.parse or parsed.timestamp throw is
\* removed
AfterParse(item) ==
    IF item.kind \in {"malformed", "null"} THEN StorageItem("absent")
    ELSE item

\* fetchWebsiteStats up to its await (lines 12-33): the cache is read
\* under the one cacheKey before websiteId or baseUrl is looked at, and
\* they are used for the statsUrl of the request only
fetchWebsiteStats(u, websiteId) ==
    IF IsFresh(u.cache, u.now)
    THEN [u EXCEPT !.last = [kind |-> "cached", value |-> u.cache.value]]
    ELSE [u EXCEPT !.cache = AfterParse(@),
                   !.inFlight = @ (+) SetToBag({websiteId}),
                   !.last = [kind |-> "fetch", value |-> "-"]]

UmamiFrame == UNCHANGED <<coordinator, icon, widget, swup, anim>>

\* getUmamiWebsiteStats is called (lines 80-86)
getUmamiWebsiteStats(websiteId) ==
    /\ umami.calls < MaxUmamiCalls
    /\ umami' = [fetchWebsiteStats(umami, websiteId)
                     EXCEPT !.calls = @ + 1, !.cleared = FALSE,
                            !.asked = websiteId]
    /\ UmamiFrame

\* the response of the request for a website is ok and its body parses
\* (lines 39-44): the value is stored under the one cacheKey and returned
\* to the caller that made the request
UmamiResponseOk(websiteId, value) ==
    /\ BagIn(websiteId, umami.inFlight)
    /\ umami' = [umami EXCEPT !.inFlight = @ (-) SetToBag({websiteId}),
                              !.cache = CacheEntry(umami.now, value),
                              !.last = [kind |-> "stored", value |-> value],
                              !.cachedFor = websiteId]
    /\ UmamiFrame

\* the response is not ok, or fetch or res.json() rejects (lines 35-37)
UmamiResponseFailed(websiteId) ==
    /\ BagIn(websiteId, umami.inFlight)
    /\ umami' = [umami EXCEPT !.inFlight = @ (-) SetToBag({websiteId}),
                              !.last = [kind |-> "failed", value |-> "-"]]
    /\ UmamiFrame

\* clearUmamiShareCache (lines 106-108)
clearUmamiShareCache ==
    /\ umami' = [umami EXCEPT !.cache = StorageItem("absent"),
                              !.cleared = TRUE,
                              !.last = [kind |-> "cleared", value |-> "-"]]
    /\ UmamiFrame

\* time passes
UmamiTick(d) ==
    /\ umami.ticks < MaxTicks
    /\ umami' = [umami EXCEPT !.now = @ + d, !.ticks = @ + 1,
                              !.last = [kind |-> "-", value |-> "-"]]
    /\ UmamiFrame

NextUmami ==
    \/ \E websiteId \in WebsiteIds : getUmamiWebsiteStats(websiteId)
    \/ \E websiteId \in WebsiteIds, value \in StatsValues :
           UmamiResponseOk(websiteId, value)
    \/ \E websiteId \in WebsiteIds : UmamiResponseFailed(websiteId)
    \/ clearUmamiShareCache
    \/ \E d \in {1, cacheTTL - 1, cacheTTL} : UmamiTick(d)

\* localStorage as the module finds it: empty, or holding under the cache
\* key something an earlier visit or another script has left
InitUmami ==
    /\ CoordinatorIdle
    /\ icon = IconIdle
    /\ widget = WidgetIdle
    /\ swup = SwupIdle
    /\ anim = AnimIdle
    /\ \E kind \in {"absent", "empty", "malformed", "null", "object"} :
           umami = [UmamiIdle EXCEPT !.cache = StorageItem(kind)]

SpecUmami == InitUmami /\ [][NextUmami]_vars

\* C16: a call of getUmamiWebsiteStats returns the cached value without a
\* request exactly when the cache holds a parseable entry younger than
\* 3,600,000 ms, and fetches otherwise; a successful response stores the
\* result with the time of that moment; after clearUmamiShareCache the
\* next call fetches.
C16_CacheHitIffFresh ==
    /\ [][umami'.calls = umami.calls + 1
            => IF /\ umami.cache.kind = "entry"
                  /\ umami.now - umami.cache.timestamp < 3600000
               THEN /\ umami'.last = [kind |-> "cached",
                                       value |-> umami.cache.value]
                    /\ umami'.inFlight = umami.inFlight
                    /\ umami'.cache = umami.cache
               ELSE /\ umami'.last.kind = "fetch"
                    /\ umami'.inFlight
                         = umami.inFlight (+) SetToBag({umami'.asked})
          ]_vars
    /\ [][umami'.last.kind = "stored"
            => /\ umami'.cache = [kind |-> "entry", timestamp |-> umami.now,
                                  value |-> umami'.last.value]
               /\ BagCardinality(umami'.inFlight)
                    = BagCardinality(umami.inFlight) - 1]_vars
    /\ [][umami'.last.kind = "failed" => umami'.cache = umami.cache]_vars
    /\ [][(umami'.calls = umami.calls + 1 /\ umami.cleared)
            => umami'.last.kind = "fetch"]_vars

\* C31: the value a call of getUmamiWebsiteStats returns was fetched for
\* the website the call asks for, whether it comes from the cache (the
\* entry read was written by the response of a request for that website)
\* or from the network (the response returned is that of a request made
\* for that website, which is also the one recorded with the entry).
C31_StatsAreOfTheWebsiteAsked ==
    /\ [][(umami'.calls = umami.calls + 1 /\ umami'.last.kind = "cached")
            => umami.cachedFor = umami'.asked]_vars
    /\ [][umami'.last.kind = "stored"
            => /\ BagIn(umami'.cachedFor, umami.inFlight)
               /\ umami'.inFlight
                    = umami.inFlight (-) SetToBag({umami'.cachedFor})]_vars

\* ========================================================= WidgetManager
\* src/utils/widget-manager.ts, lines 26-59 and 176-233. widget.components
\* is config.components and widget.enabledComponents the list the manager
\* keeps; the objects of the two lists are shared, and every method that
\* changes one of them recomputes the list within the same call.
WidgetTypes == {"profile", "tags"}
WidgetPositions == {"top", "sticky"}
WidgetOrders == {1, 2}

WidgetComponents ==
    [type : WidgetTypes, enable : BOOLEAN, position : WidgetPositions,
     order : WidgetOrders]

\* the component lists of at most n components
ComponentLists(n) == UNION {[1..k -> WidgetComponents] : k \in 0..n}

\* Array.prototype.sort with (a, b) => a.order - b.order: a stable sort,
\* here by inserting each element after the elements not greater than it
RECURSIVE SortByOrder(_)
SortByOrder(list) ==
    IF list = <<>> THEN <<>>
    ELSE LET sorted == SortByOrder(SubSeq(list, 1, Len(list) - 1))
             c == list[Len(list)]
             before == SelectSeq(sorted, LAMBDA x : x.order - c.order <= 0)
             after == SelectSeq(sorted, LAMBDA x : x.order - c.order > 0)
         IN  before \o <<c>> \o after

\* the enabled components in the order of the configuration
getEnabledComponents_unsorted(list) == SelectSeq(list, LAMBDA c : c.enable)

\* lines 45-49
getEnabledComponents(list) ==
    SortByOrder(SelectSeq(list, LAMBDA c : c.enable))

\* lines 55-59
getComponentsByPosition(w, position) ==
    SelectSeq(w.enabledComponents, LAMBDA c : c.position = position)

\* lines 30-33 and 180-183: the configuration is set and the list computed
WidgetManager(list, method) ==
    [components |-> list, enabledComponents |-> getEnabledComponents(list),
     last |-> method]

\* Array.prototype.find by type: the index of the first such component, 0
\* when there is none
FindByType(list, type) ==
    IF \E i \in 1..Len(list) : list[i].type = type
    THEN CHOOSE i \in 1..Len(list) :
            /\ list[i].type = type
            /\ \A j \in 1..(i - 1) : list[j].type # type
    ELSE 0

WidgetFrame == UNCHANGED <<coordinator, icon, umami, swup, anim>>

\* lines 180-183; newConfig without components leaves config.components
updateConfig(hasComponents, list) ==
    /\ widget' = WidgetManager(IF hasComponents THEN list
                                ELSE widget.components, "updateConfig")
    /\ WidgetFrame

\* lines 189-192
addComponent(component) ==
    /\ Len(widget.components) < MaxWidgets
    /\ widget' = WidgetManager(Append(widget.components, component),
                                "addComponent")
    /\ WidgetFrame

\* lines 198-203
removeComponent(type) ==
    /\ widget' = WidgetManager(SelectSeq(widget.components,
                                          LAMBDA c : c.type # type),
                                "removeComponent")
    /\ WidgetFrame

\* lines 210-218
toggleComponent(type, enable) ==
    LET i == FindByType(widget.components, type) IN
    /\ widget' = IF i = 0 THEN [widget EXCEPT !.last = "not found"]
                  ELSE WidgetManager([widget.components
                                         EXCEPT ![i].enable = enable],
                                     "toggleComponent")
    /\ WidgetFrame

\* lines 225-233
reorderComponent(type, newOrder) ==
    LET i == FindByType(widget.components, type) IN
    /\ widget' = IF i = 0 THEN [widget EXCEPT !.last = "not found"]
                  ELSE WidgetManager([widget.components
                                         EXCEPT ![i].order = newOrder],
                                     "reorderComponent")
    /\ WidgetFrame

NextWidget ==
    \/ \E list \in ComponentLists(1), hasComponents \in BOOLEAN :
          updateConfig(hasComponents, list)
    \/ \E component \in WidgetComponents : addComponent(component)
    \/ \E type \in WidgetTypes : removeComponent(type)
    \/ \E type \in WidgetTypes, enable \in BOOLEAN :
          toggleComponent(type, enable)
    \/ \E type \in WidgetTypes, newOrder \in WidgetOrders :
          reorderComponent(type, newOrder)

\* new WidgetManager(config) on any configuration
InitWidget ==
    /\ CoordinatorIdle
    /\ icon = IconIdle
    /\ umami = UmamiIdle
    /\ swup = SwupIdle
    /\ anim = AnimIdle
    /\ \E list \in ComponentLists(MaxWidgets) :
           widget = WidgetManager(list, "constructor")

SpecWidget == InitWidget /\ [][NextWidget]_vars

\* the number of the places of list that hold c
Occurrences(c, list) == Cardinality({i \in 1..Len(list) : list[i] = c})

\* C17: after construction and after any sequence of updateConfig,
\* addComponent, removeComponent, toggleComponent and reorderComponent,
\* getComponentsByPosition(p) holds exactly the components of the current
\* configuration that are enabled and at position p, each as often as the
\* configuration holds it, in non-decreasing order of their order values.
C17_EnabledAtPositionInOrder ==
    \A p \in WidgetPositions :
        LET got == getComponentsByPosition(widget, p) IN
        /\ \A c \in WidgetComponents :
              Occurrences(c, got)
                = IF c.enable /\ c.position = p
                  THEN Occurrences(c, widget.components) ELSE 0
        /\ \A i, j \in 1..Len(got) : i < j => got[i].order <= got[j].order

\* a reorder has put the enabled components of one position in the
\* configuration in decreasing order
C17_Witness ==
    /\ widget.last = "reorderComponent"
    /\ Len(widget.components) = 2
    /\ widget.components[1].enable /\ widget.components[2].enable
    /\ widget.components[1].position = widget.components[2].position
    /\ widget.components[1].order > widget.components[2].order
    /\ getComponentsByPosition(widget, widget.components[1].position)
         = <<widget.components[2], widget.components[1]>>

\* =========================================================== waitForSwup
\* src/utils/navigation-utils.ts, lines 81-118. swup.ready is
\* !!window.swup; swup.waits[i] is the i-th call of waitForSwup: whether
\* its swup:enable listener is registered, its timer ("none", "pending",
\* "cleared" or "fired"), the value its promise has, and how often its
\* resolve function has been called.
SwupCalls == 1..MaxSwupCalls

\* resolve(value): settles the promise the first time only
SwupResolve(w, value) ==
    IF w.pc = "resolved" THEN [w EXCEPT !.resolves = @ + 1]
    ELSE [w EXCEPT !.pc = "resolved", !.value = value, !.resolves = @ + 1]

\* lines 100-106
checkSwup(w, ready) ==
    IF ready
    THEN SwupResolve([w EXCEPT !.timer = "cleared", !.listener = FALSE],
                     "true")
    ELSE w

\* lines 92-117: the executor of the promise
waitForSwup(w, ready) ==
    IF ready THEN SwupResolve(w, "true")
    ELSE [w EXCEPT !.pc = "waiting", !.listener = TRUE, !.timer = "pending"]

\* lines 112-115: the callback of the timer
SwupTimeout(w) ==
    SwupResolve([w EXCEPT !.timer = "fired", !.listener = FALSE], "false")

SwupFrame == UNCHANGED <<coordinator, icon, umami, widget, anim>>

WaitForSwupCalled(i) ==
    /\ swup.waits[i].pc = "idle"
    /\ swup' = [swup EXCEPT !.waits[i] = waitForSwup(@, swup.ready)]
    /\ SwupFrame

\* a script sets window.swup
SwupAssigned ==
    /\ ~swup.ready
    /\ swup' = [swup EXCEPT !.ready = TRUE]
    /\ SwupFrame

\* swup:enable is dispatched on the document: every registered listener
\* runs
SwupEnableDispatched ==
    /\ swup' = [swup EXCEPT !.waits =
                    [i \in SwupCalls |->
                        IF swup.waits[i].listener
                        THEN checkSwup(swup.waits[i], swup.ready)
                        ELSE swup.waits[i]]]
    /\ SwupFrame

\* the timeout of a call elapses
SwupTimerFired(i) ==
    /\ swup.waits[i].timer = "pending"
    /\ swup' = [swup EXCEPT !.waits[i] = SwupTimeout(@)]
    /\ SwupFrame

NextSwup ==
    \/ \E i \in SwupCalls : WaitForSwupCalled(i)
    \/ SwupAssigned
    \/ SwupEnableDispatched
    \/ \E i \in SwupCalls : SwupTimerFired(i)

InitSwup ==
    /\ CoordinatorIdle
    /\ ComponentsIdle

SpecSwup == InitSwup /\ [][NextSwup]_vars

\* C18: waitForSwup resolves exactly once, with true if Swup is ready
\* before the timeout elapses and with false otherwise when the timeout
\* elapses; either way the swup:enable listener is removed, and on the true
\* outcome the timer is cancelled.
C18_ResolvesOnceWithReadiness ==
    /\ [](\A i \in SwupCalls :
            LET w == swup.waits[i] IN
            /\ w.resolves <= 1
            /\ w.pc = "resolved"
                 => /\ w.resolves = 1
                    /\ ~w.listener
                    /\ w.value = "true" => w.timer # "pending")
    /\ [][\A i \in SwupCalls :
            (swup.waits[i].pc # "resolved" /\ swup'.waits[i].pc = "resolved")
              => (swup'.waits[i].value = "true" <=> swup.ready)]_vars

\* ====================================================== AnimationManager
\* unnamed/part_000, lines 295-381 and 454-528, with the hooks of lines
\* 315-324 registered. anim.leaves and anim.enters count the leave and the
\* enter animations begun, anim.fired the 300 ms timers of line 375 that
\* have fired (equal delays: in the order they were set); a callback is
\* [id, throws], anim.ran the ids of the callbacks called so far, in order.

\* lines 468-475: callbacks are shifted and called until the queue is
\* empty or one of them throws; the queue left and the ids called
RECURSIVE processAnimationQueue(_, _)
processAnimationQueue(queue, ran) ==
    IF queue = <<>> THEN [animationQueue |-> <<>>, ran |-> ran]
    ELSE IF Head(queue).throws
    THEN [animationQueue |-> Tail(queue),
          ran |-> Append(ran, Head(queue).id)]
    ELSE processAnimationQueue(Tail(queue), Append(ran, Head(queue).id))

AnimFrame == UNCHANGED <<coordinator, icon, umami, widget, swup>>

\* lines 457-463, the callback throwing or not
queueAnimation(throws) ==
    LET callback == [id |-> anim.calls + 1, throws |-> throws] IN
    /\ anim.calls < MaxCallbacks
    /\ anim' = IF anim.isAnimating
               THEN [anim EXCEPT !.calls = @ + 1,
                                 !.animationQueue = Append(@, callback)]
               ELSE [anim EXCEPT !.calls = @ + 1,
                                 !.ran = Append(@, callback.id)]
    /\ AnimFrame

\* animation:out:start (lines 345-347): a visit begins once the enter
\* animation of the visit before it has begun
triggerPageLeaveAnimation ==
    /\ anim.leaves < MaxVisits
    /\ anim.leaves = anim.enters
    /\ anim' = [anim EXCEPT !.isAnimating = TRUE, !.leaves = @ + 1]
    /\ AnimFrame

\* animation:in:start (lines 365-380): the 300 ms timer is set
triggerPageEnterAnimation ==
    /\ anim.enters < anim.leaves
    /\ anim' = [anim EXCEPT !.enters = @ + 1]
    /\ AnimFrame

\* the timer of line 375 fires (lines 376-378)
EnterTimerFired ==
    /\ anim.fired < anim.enters
    /\ LET r == processAnimationQueue(anim.animationQueue, anim.ran)
       IN  anim' = [anim EXCEPT !.isAnimating = FALSE, !.fired = @ + 1,
                                !.animationQueue = r.animationQueue,
                                !.ran = r.ran]
    /\ AnimFrame

NextAnim ==
    \/ \E throws \in BOOLEAN : queueAnimation(throws)
    \/ triggerPageLeaveAnimation
    \/ triggerPageEnterAnimation
    \/ EnterTimerFired

InitAnim == CoordinatorIdle /\ ComponentsIdle

SpecAnim == InitAnim /\ [][NextAnim]_vars

\* a leave animation has begun and the 300 ms timer of its enter animation
\* has not fired
InTransition == anim.leaves > anim.fired

\* the ids of the callbacks of a queue, in its order
QueuedIds(queue) == [i \in 1..Len(queue) |-> queue[i].id]

\* C26: a callback passed to queueAnimation is called at most once: at
\* once when no transition is animating; otherwise it is queued, and when
\* the 300 ms timer ends the animation the queued callbacks are called in
\* the order they were queued and the queue is empty.
C26_QueuedCallbacksRunOnceInOrder ==
    /\ [](\A i, j \in 1..Len(anim.ran) :
            anim.ran[i] = anim.ran[j] => i = j)
    /\ [][anim'.calls = anim.calls + 1
            => IF anim.isAnimating
               THEN /\ anim'.ran = anim.ran
                    /\ QueuedIds(anim'.animationQueue)
                         = Append(QueuedIds(anim.animationQueue), anim'.calls)
               ELSE /\ anim'.ran = Append(anim.ran, anim'.calls)
                    /\ anim'.animationQueue = anim.animationQueue]_vars
    /\ [][anim'.fired = anim.fired + 1
            => /\ anim'.ran = anim.ran \o QueuedIds(anim.animationQueue)
               /\ anim'.animationQueue = <<>>]_vars

\* C27: from the start of a leave animation until the 300 ms timer of the
\* matching enter animation fires, isCurrentlyAnimating() is true and no
\* callback is called, also when the next leave animation starts before
\* the timer of the enter animation before it has fired.
C27_AnimatingThroughTransition ==
    /\ [](InTransition => anim.isAnimating)
    /\ [][anim'.ran # anim.ran => ~(anim'.leaves > anim'.fired)]_vars

\* ------------------------------------------------- IconLoader, continued
\* C28: isLoaded is true, and observers have been called, only after an
\* attempt of loadScript has resolved, whatever the options; loadWithRetry
\* makes at most retryCount attempts and rejects when the last has failed.
C28_LoadedOnlyAfterScriptResolved ==
    /\ icon.isLoaded
         => \E i \in DOMAIN icon.seqs :
               icon.seqs[i].pc = "resolved" /\ icon.seqs[i].attempt >= 1
    /\ \A c \in IconCallbacks : icon.invoked[c] > 0 => icon.isLoaded
    /\ \A i \in DOMAIN icon.seqs :
          /\ icon.seqs[i].attempt <= icon.seqs[i].retryCount
          /\ icon.seqs[i].pc = "rejected"
               => icon.seqs[i].attempt = icon.seqs[i].retryCount

\* C29: a callback given to onLoad is called in two places only: within
\* the onLoad call itself when the library is already loaded, once, and
\* in the step in which isLoaded becomes true, once for each callback that
\* is then among the observers, which are cleared; a callback removed by
\* offLoad is not among them, and no later step, a later loadIconify call
\* included, calls a callback again.
C29_ObserversNotifiedOnce ==
    /\ [](icon.isLoaded => icon.observers = {})
    /\ [][icon'.onLoads = icon.onLoads + 1
            => \E c \in IconCallbacks :
                  IF icon.isLoaded
                  THEN /\ icon'.invoked = [icon.invoked EXCEPT ![c] = @ + 1]
                       /\ icon'.observers = icon.observers
                  ELSE /\ icon'.invoked = icon.invoked
                       /\ icon'.observers = icon.observers \cup {c}]_vars
    /\ [][(icon'.isLoaded /\ ~icon.isLoaded)
            => /\ icon'.observers = {}
               /\ \A c \in IconCallbacks :
                     icon'.invoked[c] = icon.invoked[c]
                                         + (IF c \in icon.observers THEN 1
                                            ELSE 0)]_vars
    /\ [][(icon'.onLoads = icon.onLoads /\ icon'.isLoaded = icon.isLoaded)
            => icon'.invoked = icon.invoked]_vars

\* after a failed load a second load has succeeded: the callback that was
\* among the observers has been called once, the other never
C29_Witness ==
    /\ icon.isLoaded
    /\ Len(icon.seqs) = 2
    /\ icon.seqs[1].pc = "rejected"
    /\ icon.onLoads = 2
    /\ icon.invoked["a"] = 1
    /\ icon.invoked["b"] = 0
    /\ icon.observers = {}

\* C30: when a load has failed, the continuation of the loadIconify call
\* leaves isLoaded false and isLoading false and keeps the observers
\* uncalled; the next loadIconify call starts a new sequence of
\* loadWithRetry and keeps its promise, not the rejected one.
C30_FreshLoadAfterFailure ==
    /\ [][\A i \in DOMAIN icon.seqs :
            (/\ icon.seqs[i].pc = "rejected"
             /\ icon.seqs[i].caller = "awaiting"
             /\ icon'.seqs[i].caller = "done")
              => /\ ~icon'.isLoaded
                 /\ ~icon'.isLoading
                 /\ icon'.observers = icon.observers
                 /\ icon'.invoked = icon.invoked]_vars
    /\ [][(/\ icon'.calls = icon.calls + 1
            /\ ~icon.isLoaded
            /\ ~icon.isLoading
            /\ icon.loadPromise # 0)
            => /\ icon.seqs[icon.loadPromise].pc = "rejected"
               /\ icon'.last = "started"
               /\ Len(icon'.seqs) = Len(icon.seqs) + 1
               /\ icon'.loadPromise = Len(icon'.seqs)
               /\ icon'.isLoading
               /\ icon'.observers = icon.observers]_vars

\* a second sequence has been started after the first was rejected, an
\* observer still waiting
C30_Witness ==
    /\ icon.last = "started"
    /\ Len(icon.seqs) = 2
    /\ icon.seqs[1].pc = "rejected"
    /\ icon.seqs[1].attempt = 3
    /\ icon.loadPromise = 2
    /\ icon.isLoading
    /\ icon.observers = {"a"}

====
